---- MODULE Spec2Model ----
(***************************************************************************)
(* State-machine model of the TCP server core of src/src/server.rs:       *)
(* the accept / read-pass / drain loop in its two modes, the per-client   *)
(* framing state of src/src/client.rs, the control channel, the registry  *)
(* mutex and TcpServer::send.                                             *)
(*                                                                        *)
(* Sockets are numbered in the order the listener hands them out.  A byte *)
(* on a socket is a record [v, o]: v is the octet the code sees, o is the *)
(* socket it was sent on (0 for bytes the server itself produced); o is   *)
(* history only and is never read by a modelled operation.                *)
(*                                                                        *)
(* A usize that a peer controls is kept as its 8 little-endian digits (a  *)
(* "word"), so that 8 + length is computed with the carry the machine     *)
(* word has.                                                              *)
(***************************************************************************)
EXTENDS Integers, Sequences, FiniteSets, TLC

\* ---------------------------------------------------------------- bounds
MaxConns == 2
SoloConns == 1
TrioConns == 3
MaxFrames == 2
MaxPayload == 2
MaxCalls == 1
MaxSendLen == 1
MaxWouldBlock == 1

\* ------------------------------------------------------ program constants
HeaderSize == 8
Radix == 256

\* the sockets the listener can hand out in the longest run modelled
Socks == 1..TrioConns
Senders == {1, 2}

\* ------------------------------------------------------------------ words
Min(a, b) == IF a < b THEN a ELSE b

Zero == [v |-> 0, o |-> 0]

Zeros(n) == [i \in 1..n |-> Zero]

\* vec![0; 8], read_bytes 0
NewClient(id, sock) ==
  [id |-> id, socket |-> sock, buffer |-> Zeros(HeaderSize), read_bytes |-> 0]

\* the low digit of n and the rest, HeaderSize times
RECURSIVE Digits(_, _)
Digits(n, k) == IF k = 0 THEN <<>> ELSE <<n % Radix>> \o Digits(n \div Radix, k - 1)

\* (len as u64).to_le_bytes()
ToLeBytes(n) == Digits(n, HeaderSize)

\* usize::from_le_bytes(arr): the word whose digits are the octets of arr
FromLeBytes(arr) == [i \in 1..HeaderSize |-> arr[i].v]

WordIsZero(w) == \A i \in 1..HeaderSize : w[i] = 0

\* a word below Radix^3 is small enough to be held as a number
WordIsSmall(w) == \A i \in 4..HeaderSize : w[i] = 0

WordToNat(w) == w[1] + Radix * w[2] + Radix * Radix * w[3]

\* digit-wise w + n with carry; [w: the wrapped sum, carry: 0 or 1]
RECURSIVE AddDigits(_, _, _)
AddDigits(w, n, i) ==
  IF i > HeaderSize THEN [w |-> <<>>, carry |-> n]
  ELSE LET s == w[i] + n
           rest == AddDigits(w, s \div Radix, i + 1)
       IN  [w |-> <<s % Radix>> \o rest.w, carry |-> rest.carry]

\* header_size + amount_to_read on the machine word
WordAdd(w, n) == AddDigits(w, n, 1)

\* Vec::resize(n, 0): truncate, or extend with zeros
Resize(buf, n) ==
  IF n <= Len(buf) THEN SubSeq(buf, 1, n) ELSE buf \o Zeros(n - Len(buf))

\* a request for more than isize::MAX bytes panics ("capacity overflow"); one
\* that is not small cannot be served either (the allocation fails)
AllocFails(w) == 2 * w[HeaderSize] >= Radix \/ ~WordIsSmall(w)

\* ------------------------------------------------------------- the peers
\* payload octets differ by position, so that order is observable
PayloadOf(s, n) == [i \in 1..n |-> [v |-> 10 + i, o |-> s]]

Tag(s, digits) == [i \in 1..Len(digits) |-> [v |-> digits[i], o |-> s]]

\* a well-formed frame: the 8-byte little-endian length, then the payload
Frame(s, n) == Tag(s, ToLeBytes(n)) \o PayloadOf(s, n)

\* headers no peer can follow with a payload: 2^63, and 2^64 - 1
HugeHeader == <<0, 0, 0, 0, 0, 0, 0, 128>>
WrapHeader == <<255, 255, 255, 255, 255, 255, 255, 255>>

PeerFrames(s) ==
  {Frame(s, n) : n \in 0..MaxPayload} \cup {Tag(s, HugeHeader), Tag(s, WrapHeader)}

VARIABLES
  nonblocking,     \* TcpServer.nonblocking, fixed before run()
  loopPc,          \* "accept", "lock", "pass", "drain", "stopped", "panicked", "stuck"
  pos,             \* index of the entry the read pass is at
  cids,            \* the identity counter of run_nonblocking
  clients,         \* the registry: Vec<Client>
  lock,            \* the registry mutex: "free", held by the "loop" or by a "send"
  poisoned,        \* the registry mutex is poisoned
  queue,           \* the control channel: pending RemoveClient identities
  header,          \* the header array run_blocking shares between entries
  accepted,        \* sockets the listener has handed out
  toConnect,       \* peers that have yet to connect
  stream,          \* per socket: the bytes the peer has sent
  rd,              \* per socket: how many of them the server has read
  pstate,          \* per socket: "open", "closed" (FIN) or "reset"
  sent,            \* per socket: the frames the peer has written (history)
  ident,           \* per socket: identities given to it at accept (history)
  assigned,        \* identities in the order they were assigned (history)
  msgs,            \* per socket: message-received invocations (history)
  disc,            \* per socket: disconnected invocations (history)
  drained,         \* identities the drain has taken from the channel (history)
  spc,             \* per sender: "idle", "header", "body", "done"
  sreq,            \* per sender: [id, data] of the call in progress
  swr,             \* per sender: [hw, bw, wb, sock] header/body written, sleeps
  sres,            \* per sender: result of the last call
  calls,           \* per sender: calls made
  wire             \* per socket: bytes the server has written

vars == <<nonblocking, loopPc, pos, cids, clients, lock, poisoned,
          queue, header, accepted, toConnect, stream, rd, pstate, sent, ident, assigned, msgs, disc,
          drained, spc, sreq, swr, sres, calls, wire>>

loopVars == <<loopPc, pos, cids, clients, lock, poisoned, queue, header, accepted>>
peerVars == <<stream, rd, pstate, sent, toConnect>>
histVars == <<ident, assigned, msgs, disc, drained>>
sendVars == <<spc, sreq, swr, sres, calls, wire>>
confVars == <<nonblocking>>

NoReq == [id |-> 0, data |-> <<>>]
NoWr == [hw |-> 0, bw |-> 0, wb |-> 0, sock |-> 0]

\* the state after TcpServer::new and set_nonblocking, with n peers to come
InitWith(n) ==
  /\ nonblocking \in BOOLEAN
  /\ toConnect = n
  /\ loopPc = "accept"
  /\ pos = 0
  /\ cids = 0
  /\ clients = <<>>
  /\ lock = "free"
  /\ poisoned = FALSE
  /\ queue = <<>>
  /\ header = Zeros(HeaderSize)
  /\ accepted = 0
  /\ stream = [s \in Socks |-> <<>>]
  /\ rd = [s \in Socks |-> 0]
  /\ pstate = [s \in Socks |-> "open"]
  /\ sent = [s \in Socks |-> <<>>]
  /\ ident = [s \in Socks |-> <<>>]
  /\ assigned = <<>>
  /\ msgs = [s \in Socks |-> <<>>]
  /\ disc = [s \in Socks |-> 0]
  /\ drained = {}
  /\ spc = [t \in Senders |-> "idle"]
  /\ sreq = [t \in Senders |-> NoReq]
  /\ swr = [t \in Senders |-> NoWr]
  /\ sres = [t \in Senders |-> [msg |-> "none", at |-> "none"]]
  /\ calls = [t \in Senders |-> 0]
  /\ wire = [s \in Socks |-> <<>>]

\* ------------------------------------------------------------ accept step
\* cids in run_nonblocking, clients.len() in run_blocking
NextIdentity == IF nonblocking THEN cids ELSE Len(clients)

\* accept() returned a socket and set_nonblocking(true) succeeded
AcceptOk ==
  /\ loopPc = "accept"
  /\ lock = "free"
  /\ toConnect > 0
  /\ toConnect' = toConnect - 1
  /\ LET s == accepted + 1
         id == NextIdentity
     IN  /\ accepted' = s
         /\ cids' = IF nonblocking THEN cids + 1 ELSE cids
         /\ clients' = Append(clients, NewClient(id, s))
         /\ ident' = [ident EXCEPT ![s] = Append(@, id)]
         /\ assigned' = Append(assigned, id)
  /\ loopPc' = "lock"
  /\ UNCHANGED <<pos, lock, poisoned, queue, header>>
  /\ UNCHANGED <<stream, rd, pstate, sent, msgs, disc, drained, sendVars, confVars>>

\* accept() returned a socket but set_nonblocking(true) failed: it is dropped
AcceptNbFail ==
  /\ loopPc = "accept"
  /\ lock = "free"
  /\ toConnect > 0
  /\ toConnect' = toConnect - 1
  /\ accepted' = accepted + 1
  /\ pstate' = [pstate EXCEPT ![accepted + 1] = "reset"]
  /\ loopPc' = "lock"
  /\ UNCHANGED <<pos, cids, clients, lock, poisoned, queue, header>>
  /\ UNCHANGED <<stream, rd, sent, histVars, sendVars, confVars>>

\* accept() reported would-block: no new connection this tick
AcceptWouldBlock ==
  /\ loopPc = "accept"
  /\ loopPc' = "lock"
  /\ UNCHANGED <<pos, cids, clients, lock, poisoned, queue, header, accepted>>
  /\ UNCHANGED <<peerVars, histVars, sendVars, confVars>>

\* accept() reported another error: break
AcceptError ==
  /\ loopPc = "accept"
  /\ loopPc' = "stopped"
  /\ UNCHANGED <<pos, cids, clients, lock, poisoned, queue, header, accepted>>
  /\ UNCHANGED <<peerVars, histVars, sendVars, confVars>>

\* --------------------------------------------- the read pass, non-blocking
\* data_ref.clients.lock() before the pass over the entries
PassLock ==
  /\ loopPc = "lock"
  /\ lock = "free"
  /\ lock' = "loop"
  /\ loopPc' = "pass"
  /\ pos' = 1
  /\ UNCHANGED <<cids, clients, poisoned, queue, header, accepted>>
  /\ UNCHANGED <<peerVars, histVars, sendVars, confVars>>

\* the pass is over: the guard is dropped
PassEnd ==
  /\ loopPc = "pass"
  /\ pos > Len(clients)
  /\ lock' = "free"
  /\ loopPc' = "drain"
  /\ pos' = 0
  /\ UNCHANGED <<cids, clients, poisoned, queue, header, accepted>>
  /\ UNCHANGED <<peerVars, histVars, sendVars, confVars>>

Avail(s) == Len(stream[s]) - rd[s]

\* the next k bytes of socket s
Incoming(s, k) == SubSeq(stream[s], rd[s] + 1, rd[s] + k)

\* buf with bytes copied in from index at + 1
Fill(buf, at, bytes) ==
  [i \in 1..Len(buf) |->
     IF i > at /\ i <= at + Len(bytes) THEN bytes[i - at] ELSE buf[i]]

\* the whole buffer handed over, header included
PayloadWithHeader(buf) == buf

\* the payload handed to the handler: client.buffer[header_size..].to_vec()
PayloadSlice(buf) == SubSeq(buf, HeaderSize + 1, Len(buf))

\* lines 158-168: the header is parsed again once 8 bytes are in, and the buffer
\* is resized to 8 + length.  amount: the length word; sum: 8 + amount with its
\* carry; boom: the addition, the resize or the slice at line 170 panics;
\* buffer: the buffer as the panic or the read finds it.  checks: the build
\* has overflow checks (the addition panics) or not (it wraps).
PrepareIn(e, checks) ==
  LET parsed == e.read_bytes >= HeaderSize
      amount == IF parsed THEN FromLeBytes(SubSeq(e.buffer, 1, HeaderSize))
                ELSE ToLeBytes(0)
      sum == WordAdd(amount, HeaderSize)
      addPanics == parsed /\ sum.carry = 1 /\ checks
      allocPanics == parsed /\ ~addPanics /\ AllocFails(sum.w)
      resized == IF parsed /\ ~addPanics /\ ~allocPanics
                      /\ Len(e.buffer) # WordToNat(sum.w)
                 THEN Resize(e.buffer, WordToNat(sum.w)) ELSE e.buffer
  IN  [amount |-> amount,
       buffer |-> resized,
       boom |-> addPanics \/ allocPanics \/ e.read_bytes > Len(resized)]

\* where no word overflows the two builds agree
Prepare(e) == PrepareIn(e, TRUE)

Space(e) == Len(Prepare(e).buffer) - e.read_bytes

\* the frame is complete: amount_to_read > 0 && read_bytes == 8 + amount_to_read
Complete(amount, read_bytes) ==
  /\ ~WordIsZero(amount)
  /\ WordAdd(amount, HeaderSize).carry = 0
  /\ WordIsSmall(WordAdd(amount, HeaderSize).w)
  /\ read_bytes = WordToNat(WordAdd(amount, HeaderSize).w)

\* the count is kept when a frame completes
AfterReadKeepsCount(e, bytes) ==
  LET p == Prepare(e)
      buf == Fill(p.buffer, e.read_bytes, bytes)
      n == e.read_bytes + Len(bytes)
  IN  IF Complete(p.amount, n)
      THEN [e EXCEPT !.buffer = Resize(buf, HeaderSize), !.read_bytes = n]
      ELSE [e EXCEPT !.buffer = buf, !.read_bytes = n]

\* the entry after a read of k > 0 bytes (lines 182-192)
AfterRead(e, bytes) ==
  LET p == Prepare(e)
      buf == Fill(p.buffer, e.read_bytes, bytes)
      n == e.read_bytes + Len(bytes)
  IN  IF Complete(p.amount, n)
      THEN [e EXCEPT !.buffer = Resize(buf, HeaderSize), !.read_bytes = 0]
      ELSE [e EXCEPT !.buffer = buf, !.read_bytes = n]

\* a panic while the loop holds the registry guard: the thread ends and the
\* mutex is left poisoned
NbPanic ==
  /\ nonblocking
  /\ loopPc = "pass"
  /\ pos <= Len(clients)
  /\ Prepare(clients[pos]).boom
  /\ \E checks \in BOOLEAN :
       clients' = [clients EXCEPT ![pos].buffer = PrepareIn(clients[pos], checks).buffer]
  /\ loopPc' = "panicked"
  /\ poisoned' = TRUE
  /\ lock' = "free"
  /\ UNCHANGED <<pos, cids, queue, header, accepted>>
  /\ UNCHANGED <<peerVars, histVars, sendVars, confVars>>

\* read returned Ok(k), k > 0
NbReadData ==
  /\ nonblocking
  /\ loopPc = "pass"
  /\ pos <= Len(clients)
  /\ LET e == clients[pos]
         s == e.socket
         p == Prepare(e)
     IN  /\ ~p.boom
         /\ pstate[s] # "reset"
         /\ \E k \in 1..Min(Space(e), Avail(s)) :
              LET bytes == Incoming(s, k)
                  e2 == AfterRead(e, bytes)
              IN  /\ clients' = [clients EXCEPT ![pos] = e2]
                  /\ rd' = [rd EXCEPT ![s] = @ + k]
                  /\ msgs' = IF Complete(p.amount, e.read_bytes + k)
                             THEN [msgs EXCEPT ![s] = Append(@,
                                     [id |-> e.id,
                                      hdr |-> SubSeq(p.buffer, 1, HeaderSize),
                                      payload |-> PayloadSlice(
                                         Fill(p.buffer, e.read_bytes, bytes))])]
                             ELSE msgs
  /\ pos' = pos + 1
  /\ UNCHANGED <<loopPc, cids, lock, poisoned, queue, header, accepted>>
  /\ UNCHANGED <<stream, pstate, sent, toConnect, ident, assigned, disc, drained>>
  /\ UNCHANGED <<sendVars, confVars>>

\* the entry is dropped from the registry in the pass itself
NbReadZeroRemoving ==
  /\ nonblocking
  /\ loopPc = "pass"
  /\ pos <= Len(clients)
  /\ LET e == clients[pos]
         s == e.socket
         p == Prepare(e)
     IN  /\ ~p.boom
         /\ pstate[s] # "reset"
         /\ Space(e) = 0 \/ (Avail(s) = 0 /\ pstate[s] = "closed")
         /\ clients' = SelectSeq(clients, LAMBDA c : c.id # e.id)
         /\ queue' = queue
         /\ disc' = [disc EXCEPT ![s] = @ + 1]
  /\ pos' = pos
  /\ UNCHANGED <<loopPc, cids, lock, poisoned, header, accepted>>
  /\ UNCHANGED <<peerVars, ident, assigned, msgs, drained>>
  /\ UNCHANGED <<sendVars, confVars>>

\* read returned Ok(0): the slice is empty, or the peer has closed and all it
\* sent has been read.  A removal request is sent and the handler invoked.
NbReadZero ==
  /\ nonblocking
  /\ loopPc = "pass"
  /\ pos <= Len(clients)
  /\ LET e == clients[pos]
         s == e.socket
         p == Prepare(e)
     IN  /\ ~p.boom
         /\ pstate[s] # "reset"
         /\ Space(e) = 0 \/ (Avail(s) = 0 /\ pstate[s] = "closed")
         /\ clients' = [clients EXCEPT ![pos].buffer = p.buffer]
         /\ queue' = Append(queue, e.id)
         /\ disc' = [disc EXCEPT ![s] = @ + 1]
  /\ pos' = pos + 1
  /\ UNCHANGED <<loopPc, cids, lock, poisoned, header, accepted>>
  /\ UNCHANGED <<peerVars, ident, assigned, msgs, drained>>
  /\ UNCHANGED <<sendVars, confVars>>

\* read returned Err(WouldBlock): sleep, nothing else
NbReadWouldBlock ==
  /\ nonblocking
  /\ loopPc = "pass"
  /\ pos <= Len(clients)
  /\ LET e == clients[pos]
         s == e.socket
         p == Prepare(e)
     IN  /\ ~p.boom
         /\ Space(e) > 0
         /\ pstate[s] = "open" \/ (pstate[s] = "closed" /\ Avail(s) > 0)
         /\ clients' = [clients EXCEPT ![pos].buffer = p.buffer]
  /\ pos' = pos + 1
  /\ UNCHANGED <<loopPc, cids, lock, poisoned, queue, header, accepted>>
  /\ UNCHANGED <<peerVars, histVars, sendVars, confVars>>

\* an error is taken for the end of the stream
NbReadErrorDisconnects ==
  /\ nonblocking
  /\ loopPc = "pass"
  /\ pos <= Len(clients)
  /\ LET e == clients[pos]
         s == e.socket
         p == Prepare(e)
     IN  /\ ~p.boom
         /\ pstate[s] = "reset"
         /\ clients' = [clients EXCEPT ![pos].buffer = p.buffer]
         /\ queue' = Append(queue, e.id)
         /\ disc' = [disc EXCEPT ![s] = @ + 1]
  /\ pos' = pos + 1
  /\ UNCHANGED <<loopPc, cids, lock, poisoned, header, accepted>>
  /\ UNCHANGED <<peerVars, ident, assigned, msgs, drained>>
  /\ UNCHANGED <<sendVars, confVars>>

\* read returned another error: nothing is done with it
NbReadError ==
  /\ nonblocking
  /\ loopPc = "pass"
  /\ pos <= Len(clients)
  /\ LET e == clients[pos]
         s == e.socket
         p == Prepare(e)
     IN  /\ ~p.boom
         /\ pstate[s] = "reset"
         /\ clients' = [clients EXCEPT ![pos].buffer = p.buffer]
  /\ pos' = pos + 1
  /\ UNCHANGED <<loopPc, cids, lock, poisoned, queue, header, accepted>>
  /\ UNCHANGED <<peerVars, histVars, sendVars, confVars>>

\* ------------------------------------------------- the read pass, blocking
\* read_exact of n bytes on the non-blocking socket s, off bytes after what has
\* been read: the ways it can end, each with the number of bytes it took.
\* It takes what has arrived; then Ok when the buffer is full, UnexpectedEof on
\* a read of 0 bytes, and the error of the read otherwise.
ReadExact(s, off, n) ==
  LET a == Avail(s) - off
  IN  IF n = 0 THEN {[res |-> "ok", j |-> 0]}
      ELSE {[res |-> "ok", j |-> n] : x \in {y \in {1} : a >= n /\ pstate[s] # "reset"}}
           \cup {[res |-> "wouldblock", j |-> j] :
                   j \in {i \in 0..Min(a, n - 1) :
                            pstate[s] = "open" \/ (pstate[s] = "closed" /\ i < a)}}
           \cup {[res |-> "eof", j |-> a] :
                   x \in {y \in {1} : a < n /\ pstate[s] = "closed"}}
           \cup {[res |-> "error", j |-> 0] : x \in {y \in {1} : pstate[s] = "reset"}}

\* the bytes taken never reach the header array
HeaderStale(s, j) == header

\* the header array after a read_exact that took j bytes
HeaderAfter(s, j) == Fill(header, 0, Incoming(s, j))

\* vec![0; expected_bytes] panics: the thread ends with the guard held
BlPanic ==
  /\ ~nonblocking
  /\ loopPc = "pass"
  /\ pos <= Len(clients)
  /\ LET s == clients[pos].socket
     IN  /\ [res |-> "ok", j |-> HeaderSize] \in ReadExact(s, 0, HeaderSize)
         /\ AllocFails(FromLeBytes(HeaderAfter(s, HeaderSize)))
         /\ header' = HeaderAfter(s, HeaderSize)
         /\ rd' = [rd EXCEPT ![s] = @ + HeaderSize]
  /\ loopPc' = "panicked"
  /\ poisoned' = TRUE
  /\ lock' = "free"
  /\ UNCHANGED <<pos, cids, clients, queue, accepted>>
  /\ UNCHANGED <<stream, pstate, sent, toConnect, histVars, sendVars, confVars>>

\* both read_exact calls returned Ok: the handler gets the payload
BlReadMessage ==
  /\ ~nonblocking
  /\ loopPc = "pass"
  /\ pos <= Len(clients)
  /\ LET e == clients[pos]
         s == e.socket
         h == HeaderAfter(s, HeaderSize)
         w == FromLeBytes(h)
     IN  /\ [res |-> "ok", j |-> HeaderSize] \in ReadExact(s, 0, HeaderSize)
         /\ ~AllocFails(w)
         /\ [res |-> "ok", j |-> WordToNat(w)] \in ReadExact(s, HeaderSize, WordToNat(w))
         /\ header' = h
         /\ rd' = [rd EXCEPT ![s] = @ + HeaderSize + WordToNat(w)]
         /\ msgs' = [msgs EXCEPT ![s] = Append(@,
                       [id |-> e.id, hdr |-> h,
                        payload |-> SubSeq(stream[s], rd[s] + HeaderSize + 1,
                                           rd[s] + HeaderSize + WordToNat(w))])]
  /\ pos' = pos + 1
  /\ UNCHANGED <<loopPc, cids, clients, lock, poisoned, queue, accepted>>
  /\ UNCHANGED <<stream, pstate, sent, toConnect, ident, assigned, disc, drained>>
  /\ UNCHANGED <<sendVars, confVars>>

\* the ways the two read_exact calls of one entry end without a message:
\* [res, taken, header]
BlFailures(s) ==
  {[res |-> o.res, taken |-> o.j, header |-> HeaderAfter(s, o.j)] :
     o \in {x \in ReadExact(s, 0, HeaderSize) : x.res # "ok"}}
  \cup
  IF [res |-> "ok", j |-> HeaderSize] \in ReadExact(s, 0, HeaderSize)
       /\ ~AllocFails(FromLeBytes(HeaderAfter(s, HeaderSize)))
  THEN LET h == HeaderAfter(s, HeaderSize)
           n == WordToNat(FromLeBytes(h))
       IN  {[res |-> o.res, taken |-> HeaderSize + o.j, header |-> h] :
              o \in {x \in ReadExact(s, HeaderSize, n) : x.res # "ok"}}
  ELSE {}

\* a read_exact returned UnexpectedEof: removal request and handler
BlReadEof ==
  /\ ~nonblocking
  /\ loopPc = "pass"
  /\ pos <= Len(clients)
  /\ LET e == clients[pos]
         s == e.socket
     IN  \E f \in BlFailures(s) :
           /\ f.res = "eof"
           /\ header' = f.header
           /\ rd' = [rd EXCEPT ![s] = @ + f.taken]
           /\ queue' = Append(queue, e.id)
           /\ disc' = [disc EXCEPT ![s] = @ + 1]
  /\ pos' = pos + 1
  /\ UNCHANGED <<loopPc, cids, clients, lock, poisoned, accepted>>
  /\ UNCHANGED <<stream, pstate, sent, toConnect, ident, assigned, msgs, drained>>
  /\ UNCHANGED <<sendVars, confVars>>

\* a read_exact returned another error (would-block among them): what it had
\* taken is dropped and nothing else is done
BlReadOther ==
  /\ ~nonblocking
  /\ loopPc = "pass"
  /\ pos <= Len(clients)
  /\ LET e == clients[pos]
         s == e.socket
     IN  \E f \in BlFailures(s) :
           /\ f.res # "eof"
           /\ header' = f.header
           /\ rd' = [rd EXCEPT ![s] = @ + f.taken]
  /\ pos' = pos + 1
  /\ UNCHANGED <<loopPc, cids, clients, lock, poisoned, queue, accepted>>
  /\ UNCHANGED <<stream, pstate, sent, toConnect, histVars, sendVars, confVars>>

\* ------------------------------------------------------------- the drain
\* the test of the closure inverted
RetainInverted(cl, id) == SelectSeq(cl, LAMBDA c : c.id = id)

\* clients.retain(|cli| cli.id != id)
Retain(cl, id) == SelectSeq(cl, LAMBDA c : c.id # id)

\* try_recv() found nothing
DrainEmpty ==
  /\ loopPc = "drain"
  /\ queue = <<>>
  /\ loopPc' = "accept"
  /\ UNCHANGED <<pos, cids, clients, lock, poisoned, queue, header, accepted>>
  /\ UNCHANGED <<peerVars, histVars, sendVars, confVars>>

\* try_recv() took one RemoveClient(id): the entries with that id are dropped
DrainOne ==
  /\ loopPc = "drain"
  /\ queue # <<>>
  /\ lock = "free"
  /\ clients' = Retain(clients, Head(queue))
  /\ queue' = Tail(queue)
  /\ drained' = drained \cup {Head(queue)}
  /\ loopPc' = "accept"
  /\ UNCHANGED <<pos, cids, lock, poisoned, header, accepted>>
  /\ UNCHANGED <<peerVars, ident, assigned, msgs, disc, sendVars, confVars>>

\* -------------------------------------------------------------- the peers
\* the peer of socket s writes its one frame, of one payload byte
PeerWriteOnce(s) ==
  /\ s <= accepted
  /\ pstate[s] = "open"
  /\ sent[s] = <<>>
  /\ stream' = [stream EXCEPT ![s] = @ \o Frame(s, 1)]
  /\ sent' = [sent EXCEPT ![s] = Append(@, Frame(s, 1))]
  /\ UNCHANGED <<rd, pstate, toConnect, loopVars, histVars, sendVars, confVars>>

\* the peer of socket s writes, as its one frame, a header of 2^64 - 1
PeerWriteBad(s) ==
  /\ s <= accepted
  /\ pstate[s] = "open"
  /\ sent[s] = <<>>
  /\ stream' = [stream EXCEPT ![s] = @ \o Tag(s, WrapHeader)]
  /\ sent' = [sent EXCEPT ![s] = Append(@, Tag(s, WrapHeader))]
  /\ UNCHANGED <<rd, pstate, toConnect, loopVars, histVars, sendVars, confVars>>

\* the peer of socket s writes one more frame
PeerWrite(s) ==
  /\ s <= accepted
  /\ pstate[s] = "open"
  /\ Len(sent[s]) < MaxFrames
  /\ \E f \in PeerFrames(s) :
       /\ stream' = [stream EXCEPT ![s] = @ \o f]
       /\ sent' = [sent EXCEPT ![s] = Append(@, f)]
  /\ UNCHANGED <<rd, pstate, toConnect, loopVars, histVars, sendVars, confVars>>

\* the peer closes its side, after all it wrote or with no more sent than the
\* server has read
PeerClose(s) ==
  /\ s <= accepted
  /\ pstate[s] = "open"
  /\ \E j \in {rd[s], Len(stream[s])} :
       stream' = [stream EXCEPT ![s] = SubSeq(@, 1, j)]
  /\ pstate' = [pstate EXCEPT ![s] = "closed"]
  /\ UNCHANGED <<rd, sent, toConnect, loopVars, histVars, sendVars, confVars>>

\* the connection is reset: what the server has not read is lost
PeerReset(s) ==
  /\ s <= accepted
  /\ pstate[s] = "open"
  /\ stream' = [stream EXCEPT ![s] = SubSeq(@, 1, rd[s])]
  /\ pstate' = [pstate EXCEPT ![s] = "reset"]
  /\ UNCHANGED <<rd, sent, toConnect, loopVars, histVars, sendVars, confVars>>

\* ------------------------------------------------------------------ send
\* the payloads a caller passes
SendData == {[i \in 1..n |-> 20 + i] : n \in 0..MaxSendLen}

\* the identities a caller passes: those the loop can assign, and one more
SendIds == 0..MaxConns

\* clients.iter().find(|client| client.id == client_id): the index, 0 for None
Find(cl, id) ==
  IF \E i \in 1..Len(cl) : cl[i].id = id
  THEN CHOOSE i \in 1..Len(cl) : cl[i].id = id /\ \A j \in 1..(i - 1) : cl[j].id # id
  ELSE 0

\* the string send returns when it falls through to its last line
FallThrough == "Couldn't lock clients"

\* clients.lock() is Err (the mutex is poisoned): the last line is reached
SendLockFail(t) ==
  /\ spc[t] \in {"idle", "done"}
  /\ calls[t] < MaxCalls
  /\ lock = "free"
  /\ poisoned
  /\ \E id \in SendIds, data \in SendData :
       sreq' = [sreq EXCEPT ![t] = [id |-> id, data |-> data]]
  /\ swr' = [swr EXCEPT ![t] = NoWr]
  /\ sres' = [sres EXCEPT ![t] = [msg |-> FallThrough, at |-> "lock"]]
  /\ spc' = [spc EXCEPT ![t] = "done"]
  /\ calls' = [calls EXCEPT ![t] = @ + 1]
  /\ UNCHANGED <<wire, loopVars, peerVars, histVars, confVars>>

\* no entry has the identity: the last line is reached
SendUnknown(t) ==
  /\ spc[t] \in {"idle", "done"}
  /\ calls[t] < MaxCalls
  /\ lock = "free"
  /\ ~poisoned
  /\ \E id \in SendIds, data \in SendData :
       /\ Find(clients, id) = 0
       /\ sreq' = [sreq EXCEPT ![t] = [id |-> id, data |-> data]]
  /\ swr' = [swr EXCEPT ![t] = NoWr]
  /\ sres' = [sres EXCEPT ![t] = [msg |-> FallThrough, at |-> "find"]]
  /\ spc' = [spc EXCEPT ![t] = "done"]
  /\ calls' = [calls EXCEPT ![t] = @ + 1]
  /\ UNCHANGED <<wire, loopVars, peerVars, histVars, confVars>>

\* the entry is found and the guard is dropped before the writes
SendFoundUnlocked(t) ==
  /\ spc[t] \in {"idle", "done"}
  /\ calls[t] < MaxCalls
  /\ lock = "free"
  /\ ~poisoned
  /\ \E id \in SendIds, data \in SendData :
       /\ Find(clients, id) # 0
       /\ sreq' = [sreq EXCEPT ![t] = [id |-> id, data |-> data]]
       /\ swr' = [swr EXCEPT ![t] =
                    [hw |-> 0, bw |-> 0, wb |-> 0,
                     sock |-> clients[Find(clients, id)].socket]]
  /\ lock' = lock
  /\ sres' = [sres EXCEPT ![t] = [msg |-> "none", at |-> "write"]]
  /\ spc' = [spc EXCEPT ![t] = "header"]
  /\ calls' = [calls EXCEPT ![t] = @ + 1]
  /\ UNCHANGED <<loopPc, pos, cids, clients, poisoned, queue, header, accepted>>
  /\ UNCHANGED <<wire, peerVars, histVars, confVars>>

\* the entry is found: the writes start, with the guard held
SendFound(t) ==
  /\ spc[t] \in {"idle", "done"}
  /\ calls[t] < MaxCalls
  /\ lock = "free"
  /\ ~poisoned
  /\ \E id \in SendIds, data \in SendData :
       /\ Find(clients, id) # 0
       /\ sreq' = [sreq EXCEPT ![t] = [id |-> id, data |-> data]]
       /\ swr' = [swr EXCEPT ![t] =
                    [hw |-> 0, bw |-> 0, wb |-> 0,
                     sock |-> clients[Find(clients, id)].socket]]
  /\ lock' = "send"
  /\ sres' = [sres EXCEPT ![t] = [msg |-> "none", at |-> "write"]]
  /\ spc' = [spc EXCEPT ![t] = "header"]
  /\ calls' = [calls EXCEPT ![t] = @ + 1]
  /\ UNCHANGED <<loopPc, pos, cids, clients, poisoned, queue, header, accepted>>
  /\ UNCHANGED <<wire, peerVars, histVars, confVars>>

\* the slices taken from the start, whatever has been written
SendRestFromStart(t) ==
  IF spc[t] = "header"
  THEN SubSeq(ToLeBytes(Len(sreq[t].data)), 1, HeaderSize - swr[t].hw)
  ELSE SubSeq(sreq[t].data, 1, Len(sreq[t].data) - swr[t].bw)

\* what the current loop of the call still has to write
SendRest(t) ==
  IF spc[t] = "header"
  THEN SubSeq(ToLeBytes(Len(sreq[t].data)), swr[t].hw + 1, HeaderSize)
  ELSE SubSeq(sreq[t].data, swr[t].bw + 1, Len(sreq[t].data))

\* where the call is after k more bytes: the header loop ends at 8, the body
\* loop at data.len(), and then send returns Ok
SendPcAfter(t, k) ==
  IF spc[t] = "header"
  THEN IF swr[t].hw + k < HeaderSize THEN "header"
       ELSE IF Len(sreq[t].data) > 0 THEN "body" ELSE "done"
  ELSE IF swr[t].bw + k < Len(sreq[t].data) THEN "body" ELSE "done"

\* socket.write returned Ok(k), k > 0
SendWriteK(t, k) ==
  /\ spc[t] \in {"header", "body"}
  /\ k \in 1..Len(SendRest(t))
  /\   /\ wire' = [wire EXCEPT ![swr[t].sock] =
                     @ \o [i \in 1..k |->
                            [v |-> SendRest(t)[i], call |-> t, n |-> calls[t]]]]
       /\ swr' = [swr EXCEPT ![t] =
                    IF spc[t] = "header" THEN [@ EXCEPT !.hw = @ + k]
                    ELSE [@ EXCEPT !.bw = @ + k]]
       /\ spc' = [spc EXCEPT ![t] = SendPcAfter(t, k)]
       /\ sres' = IF SendPcAfter(t, k) = "done"
                  THEN [sres EXCEPT ![t] = [msg |-> "Ok", at |-> "write"]]
                  ELSE sres
       /\ lock' = IF SendPcAfter(t, k) = "done" THEN "free" ELSE lock
  /\ UNCHANGED <<loopPc, pos, cids, clients, poisoned, queue, header, accepted>>
  /\ UNCHANGED <<sreq, calls, peerVars, histVars, confVars>>

\* the transport takes any positive number of bytes
SendWrite(t) == \E k \in 1..HeaderSize + MaxSendLen : SendWriteK(t, k)

\* the transport takes all it is given
SendWriteAll(t) == SendWriteK(t, Len(SendRest(t)))

\* socket.write returned Err(WouldBlock): sleep and try again
SendWouldBlock(t) ==
  /\ spc[t] \in {"header", "body"}
  /\ swr[t].wb < MaxWouldBlock
  /\ swr' = [swr EXCEPT ![t].wb = @ + 1]
  /\ UNCHANGED <<spc, sreq, sres, calls, wire, loopVars, peerVars, histVars, confVars>>

\* the entry is dropped from the registry when its socket fails
SendIoErrorDropping(t) ==
  /\ spc[t] \in {"header", "body"}
  /\ pstate[swr[t].sock] # "open"
  /\ sres' = [sres EXCEPT ![t] = [msg |-> "io error kind", at |-> "write"]]
  /\ spc' = [spc EXCEPT ![t] = "done"]
  /\ lock' = "free"
  /\ clients' = SelectSeq(clients, LAMBDA c : c.socket # swr[t].sock)
  /\ UNCHANGED <<loopPc, pos, cids, poisoned, queue, header, accepted>>
  /\ UNCHANGED <<sreq, swr, calls, wire, peerVars, histVars, confVars>>

\* socket.write returned another error: send returns its kind
SendIoError(t) ==
  /\ spc[t] \in {"header", "body"}
  /\ pstate[swr[t].sock] # "open"
  /\ sres' = [sres EXCEPT ![t] = [msg |-> "io error kind", at |-> "write"]]
  /\ spc' = [spc EXCEPT ![t] = "done"]
  /\ lock' = "free"
  /\ UNCHANGED <<loopPc, pos, cids, clients, poisoned, queue, header, accepted>>
  /\ UNCHANGED <<sreq, swr, calls, wire, peerVars, histVars, confVars>>

\* ------------------------------------------------- handlers that call send
\* clients.lock() in send, on the thread that holds the guard already: the
\* call does not return.  The mutex either blocks the thread for good, the
\* guard still held, or panics, and the unwinding drops the guard and leaves
\* the mutex poisoned.
Relock ==
  {[pc |-> "stuck", lock |-> "loop", poisoned |-> FALSE],
   [pc |-> "panicked", lock |-> "free", poisoned |-> TRUE]}

\* the accept arm, with an on_client_connected that calls send: the entry is
\* pushed, the handler is invoked under the guard taken at line 133
AcceptHandlerSends ==
  /\ nonblocking
  /\ loopPc = "accept"
  /\ lock = "free"
  /\ toConnect > 0
  /\ toConnect' = toConnect - 1
  /\ LET s == accepted + 1
         id == NextIdentity
     IN  /\ accepted' = s
         /\ cids' = cids + 1
         /\ clients' = Append(clients, NewClient(id, s))
         /\ ident' = [ident EXCEPT ![s] = Append(@, id)]
         /\ assigned' = Append(assigned, id)
  /\ \E o \in Relock :
       /\ loopPc' = o.pc
       /\ lock' = o.lock
       /\ poisoned' = o.poisoned
  /\ UNCHANGED <<pos, queue, header>>
  /\ UNCHANGED <<stream, rd, pstate, sent, msgs, disc, drained, sendVars, confVars>>

\* read returned Ok(0), with an on_client_disconnected that calls send: the
\* request is sent, the handler is invoked under the guard of the pass
DisconnectedHandlerSends ==
  /\ nonblocking
  /\ loopPc = "pass"
  /\ pos <= Len(clients)
  /\ LET e == clients[pos]
         s == e.socket
         p == Prepare(e)
     IN  /\ ~p.boom
         /\ pstate[s] # "reset"
         /\ Space(e) = 0 \/ (Avail(s) = 0 /\ pstate[s] = "closed")
         /\ clients' = [clients EXCEPT ![pos].buffer = p.buffer]
         /\ queue' = Append(queue, e.id)
         /\ disc' = [disc EXCEPT ![s] = @ + 1]
  /\ \E o \in Relock :
       /\ loopPc' = o.pc
       /\ lock' = o.lock
       /\ poisoned' = o.poisoned
  /\ UNCHANGED <<pos, cids, header, accepted>>
  /\ UNCHANGED <<peerVars, ident, assigned, msgs, drained>>
  /\ UNCHANGED <<sendVars, confVars>>

\* a read completes a frame, with an on_message_received that calls send: the
\* handler is invoked under the guard of the pass, before the entry is reset
MessageHandlerSends ==
  /\ nonblocking
  /\ loopPc = "pass"
  /\ pos <= Len(clients)
  /\ LET e == clients[pos]
         s == e.socket
         p == Prepare(e)
     IN  /\ ~p.boom
         /\ pstate[s] # "reset"
         /\ \E k \in 1..Min(Space(e), Avail(s)) :
              LET bytes == Incoming(s, k)
                  buf == Fill(p.buffer, e.read_bytes, bytes)
              IN  /\ Complete(p.amount, e.read_bytes + k)
                  /\ clients' = [clients EXCEPT ![pos] =
                                   [e EXCEPT !.buffer = buf,
                                             !.read_bytes = e.read_bytes + k]]
                  /\ rd' = [rd EXCEPT ![s] = @ + k]
                  /\ msgs' = [msgs EXCEPT ![s] = Append(@,
                                [id |-> e.id,
                                 hdr |-> SubSeq(p.buffer, 1, HeaderSize),
                                 payload |-> PayloadSlice(buf)])]
  /\ \E o \in Relock :
       /\ loopPc' = o.pc
       /\ lock' = o.lock
       /\ poisoned' = o.poisoned
  /\ UNCHANGED <<pos, cids, queue, header, accepted>>
  /\ UNCHANGED <<stream, pstate, sent, toConnect, ident, assigned, disc, drained>>
  /\ UNCHANGED <<sendVars, confVars>>

\* the ways a call starts
SendCall(t) ==
  \/ SendLockFail(t)
  \/ SendUnknown(t)
  \/ SendFound(t)

\* the steps the two loops share
LoopCommon ==
  \/ AcceptOk
  \/ AcceptNbFail
  \/ AcceptWouldBlock
  \/ AcceptError
  \/ PassLock
  \/ PassEnd
  \/ DrainEmpty
  \/ DrainOne

\* run_nonblocking, reading frames no longer than the peers of LightPeers send
LoopNbLight ==
  \/ LoopCommon
  \/ NbReadData
  \/ NbReadZero
  \/ NbReadWouldBlock
  \/ NbReadError

\* run_nonblocking
LoopNb ==
  \/ LoopNbLight
  \/ NbPanic

\* run_blocking
LoopBl ==
  \/ BlPanic
  \/ BlReadMessage
  \/ BlReadEof
  \/ BlReadOther

Peers == \E s \in Socks : PeerWrite(s) \/ PeerClose(s) \/ PeerReset(s)

LightPeers == \E s \in Socks : PeerWriteOnce(s) \/ PeerClose(s) \/ PeerReset(s)

\* one connection, any frames
InitFraming == InitWith(SoloConns)

NextFraming ==
  \/ LoopNb
  \/ LoopBl
  \/ Peers

SpecFraming == InitFraming /\ [][NextFraming]_vars

\* several connections, one short frame each
InitRegistry == InitWith(MaxConns)

NextRegistry ==
  \/ LoopNbLight
  \/ LoopBl
  \/ LightPeers

SpecRegistry == InitRegistry /\ [][NextRegistry]_vars

\* three connections whose peers send nothing and close
InitClose == InitWith(TrioConns)

NextClose ==
  \/ LoopCommon
  \/ NbReadZero
  \/ NbReadWouldBlock
  \/ BlReadEof
  \/ BlReadOther
  \/ (\E s \in Socks : PeerClose(s))

SpecClose == InitClose /\ [][NextClose]_vars

\* the non-blocking loop, several connections with one short frame each, and a
\* caller of send
InitSend == InitWith(MaxConns) /\ nonblocking

NextSend ==
  \/ LoopNbLight
  \/ LightPeers
  \/ SendUnknown(1)
  \/ SendFound(1)
  \/ SendWriteAll(1)
  \/ SendIoError(1)

SpecSend == InitSend /\ [][NextSend]_vars

\* the non-blocking loop, one connection, and a caller of send on a transport
\* that takes any number of bytes and may report would-block
InitWrite == InitWith(SoloConns) /\ nonblocking

NextWrite ==
  \/ LoopNb
  \/ LightPeers
  \/ (\E s \in Socks : PeerWriteBad(s))
  \/ SendCall(1)
  \/ SendWrite(1)
  \/ SendWouldBlock(1)
  \/ SendIoError(1)

SpecWrite == InitWrite /\ [][NextWrite]_vars

\* the non-blocking loop, one connection whose peer sends nothing, and two
\* threads that call send
InitPair == InitWith(SoloConns) /\ nonblocking

NextPair ==
  \/ LoopCommon
  \/ NbReadZero
  \/ NbReadWouldBlock
  \/ NbReadError
  \/ (\E s \in Socks : PeerClose(s) \/ PeerReset(s))
  \/ (\E t \in Senders : SendFound(t))
  \/ (\E t \in Senders : SendWrite(t))
  \/ (\E t \in Senders : SendWouldBlock(t))
  \/ (\E t \in Senders : SendIoError(t))

SpecPair == InitPair /\ [][NextPair]_vars

\* the non-blocking loop, one connection, and handlers that may call send
InitHandler == InitWith(SoloConns) /\ nonblocking

NextHandler ==
  \/ LoopNbLight
  \/ LightPeers
  \/ AcceptHandlerSends
  \/ DisconnectedHandlerSends
  \/ MessageHandlerSends

SpecHandler == InitHandler /\ [][NextHandler]_vars

\* a transport that has reported would-block MaxWouldBlock times takes bytes,
\* and the caller's thread is scheduled
FairWrite == SpecWrite /\ WF_vars(SendWrite(1))

\* ------------------------------------------------------------------ claims
\* the identity socket s was given at accept
IdOf(s) == ident[s][1]

FramePayload(f) == SubSeq(f, HeaderSize + 1, Len(f))

\* f is a header declaring N >= 1 followed by N payload bytes
GoodFrame(f) ==
  /\ Len(f) > HeaderSize
  /\ WordIsSmall(FromLeBytes(f))
  /\ WordToNat(FromLeBytes(f)) = Len(f) - HeaderSize

RECURSIVE EndOf(_, _)
\* the number of bytes of the first i frames of fs
EndOf(fs, i) == IF i = 0 THEN 0 ELSE Len(fs[i]) + EndOf(fs, i - 1)

GoodUpTo(s, i) == \A j \in 1..i : GoodFrame(sent[s][j])

\* C1: in the non-blocking loop, a frame declaring N >= 1 that follows only such
\* frames on its connection is handed to the message-received handler exactly
\* once, when the last of its 8 + N bytes has been read and not before, with the
\* connection's identity and exactly its N payload bytes in order, whatever the
\* sizes of the reads that brought the bytes in.
C1_FrameDeliveredOnce ==
  nonblocking =>
    \A s \in Socks :
      /\ \A i \in 1..Len(sent[s]) :
           GoodUpTo(s, i) =>
             IF rd[s] >= EndOf(sent[s], i)
             THEN /\ Len(msgs[s]) >= i
                  /\ msgs[s][i].id = IdOf(s)
                  /\ msgs[s][i].payload = FramePayload(sent[s][i])
             ELSE Len(msgs[s]) < i
      /\ GoodUpTo(s, Len(sent[s])) => Len(msgs[s]) <= Len(sent[s])

\* two frames, the second with the longest payload, both delivered
C1_Witness ==
  /\ nonblocking
  /\ \E s \in Socks :
       /\ Len(sent[s]) = MaxFrames
       /\ GoodUpTo(s, MaxFrames)
       /\ Len(sent[s][MaxFrames]) = HeaderSize + MaxPayload
       /\ Len(msgs[s]) = MaxFrames
       /\ Len(msgs[s][MaxFrames].payload) = MaxPayload

\* the entries of the registry that read socket s
EntriesOf(s) == {i \in 1..Len(clients) : clients[i].socket = s}

\* the identities in the registry, in its order
Ids(cl) == [i \in 1..Len(cl) |-> cl[i].id]

Range(f) == {f[i] : i \in DOMAIN f}

\* C2: in the non-blocking loop, a peer that sends a frame of length 0 and keeps
\* the connection open gets one message-received invocation with an empty
\* payload and its entry back in the initial state: once the 8 header bytes
\* are read the entry stays in the registry, is not reported as disconnected,
\* and is either still to be visited or reset with that one message delivered.
C2_ZeroFrameDelivered ==
  nonblocking =>
    \A s \in Socks :
      (sent[s] = <<Frame(s, 0)>> /\ pstate[s] = "open" /\ rd[s] = HeaderSize) =>
        /\ disc[s] = 0
        /\ \E i \in EntriesOf(s) :
             \/ clients[i].read_bytes = HeaderSize /\ msgs[s] = <<>>
             \/ /\ clients[i].read_bytes = 0
                /\ Len(clients[i].buffer) = HeaderSize
                /\ Len(msgs[s]) = 1
                /\ msgs[s][1].id = IdOf(s)
                /\ msgs[s][1].payload = <<>>

\* C3: a drain step leaves no identity in the registry for which a removal
\* request was in the control channel when the step began, however many
\* requests were pending.
C3_AbsentAfterOneDrain ==
  [][(loopPc = "drain" /\ loopPc' = "accept") =>
       \A x \in Range(queue) : x \notin Range(Ids(clients'))]_vars

\* C4: in both loop modes each identity assigned is greater than every identity
\* assigned before it, and no two entries of the registry share an identity.
C4_IdentitiesIncrease ==
  /\ \A i, j \in 1..Len(assigned) : i < j => assigned[i] < assigned[j]
  /\ \A i, j \in 1..Len(clients) : i # j => clients[i].id # clients[j].id

\* C5: whatever the peers send, the non-blocking loop ends only through an
\* accept error other than would-block: it never ends by a panic.
C5_LoopEndsOnlyOnAcceptError == nonblocking => loopPc # "panicked"

\* the peer of s sent fewer than 8 bytes in all and closed
PartialThenClosed(s) ==
  /\ ident[s] # <<>>
  /\ pstate[s] = "closed"
  /\ Len(stream[s]) < HeaderSize

\* sender t starts a call in this step
Starts(t) == calls'[t] = calls[t] + 1

C6_State ==
  \A s \in Socks :
    PartialThenClosed(s) =>
      /\ msgs[s] = <<>>
      /\ IdOf(s) \in drained =>
           /\ disc[s] >= 1
           /\ IdOf(s) \notin Range(Ids(clients))

\* C6: in the non-blocking loop a connection whose peer sends fewer than 8
\* header bytes and closes gets no message-received invocation; once the drain
\* has taken its removal request the disconnected handler has been invoked for
\* it, it is not in the registry, and a send to its identity that starts from
\* then on fails at once and writes nothing.
C6_PartialHeaderThenClose ==
  [][/\ nonblocking => C6_State'
     /\ \A t \in Senders, s \in Socks :
          (/\ nonblocking
           /\ PartialThenClosed(s)
           /\ IdOf(s) \in drained
           /\ Starts(t)
           /\ sreq'[t].id = IdOf(s)) =>
             /\ spc'[t] = "done"
             /\ sres'[t].msg # "Ok"
             /\ wire' = wire]_vars

\* some header bytes were read, the peer closed, the request was drained and a
\* send to the identity has failed
C6_Witness ==
  /\ nonblocking
  /\ \E s \in Socks, t \in Senders :
       /\ PartialThenClosed(s)
       /\ rd[s] > 0
       /\ disc[s] >= 1
       /\ IdOf(s) \in drained
       /\ spc[t] = "done"
       /\ sreq[t].id = IdOf(s)
       /\ sres[t].at = "find"
       /\ wire[s] = <<>>

\* C7: a send to an identity that is not in the registry fails with a reason
\* of its own, which is not the one a failure to lock the registry gives.
C7_UnknownClientReason ==
  \A t \in Senders : sres[t].at = "find" => sres[t].msg \notin {"Ok", FallThrough}

\* digit i of the 8-byte little-endian encoding of n, for n below Radix^3
LeDigit(n, i) ==
  IF i = 1 THEN n % Radix
  ELSE IF i = 2 THEN (n \div Radix) % Radix
  ELSE IF i = 3 THEN (n \div (Radix * Radix)) % Radix
  ELSE 0

\* the frame a send of data puts on the wire
WireFrame(data) ==
  [i \in 1..(HeaderSize + Len(data)) |->
     IF i <= HeaderSize THEN LeDigit(Len(data), i) ELSE data[i - HeaderSize]]

\* the octets sender t has written to the socket in its current call
WrittenBy(t) ==
  LET w == SelectSeq(wire[swr[t].sock], LAMBDA b : b.call = t /\ b.n = calls[t])
  IN  [i \in 1..Len(w) |-> w[i].v]

C8_Safety ==
  \A t \in Senders :
    (spc[t] # "idle" /\ sres[t].at = "write") =>
      /\ Len(WrittenBy(t)) = swr[t].hw + swr[t].bw
      /\ Len(WrittenBy(t)) <= HeaderSize + Len(sreq[t].data)
      /\ WrittenBy(t) = SubSeq(WireFrame(sreq[t].data), 1, Len(WrittenBy(t)))
      /\ swr[t].bw > 0 => swr[t].hw = HeaderSize
      /\ (spc[t] = "done" /\ pstate[swr[t].sock] = "open") => sres[t].msg = "Ok"
      /\ sres[t].msg = "Ok" => WrittenBy(t) = WireFrame(sreq[t].data)

\* C8: a send of L bytes to a registered identity, on a transport that takes
\* any positive number of bytes per write and reports would-block at most
\* MaxWouldBlock times, returns; unless the socket fails it returns Ok; what it
\* has written is at every moment a prefix of the 8-byte little-endian encoding
\* of L followed by the payload, and all of it once it has returned Ok.
C8_SendWritesFrame ==
  /\ []C8_Safety
  /\ \A t \in Senders : (spc[t] \in {"header", "body"}) ~> (spc[t] = "done")

\* a send of the longest payload returned Ok after the transport had reported
\* would-block as often as it may
C8_Witness ==
  \E t \in Senders :
    /\ spc[t] = "done"
    /\ sres[t].msg = "Ok"
    /\ Len(sreq[t].data) = MaxSendLen
    /\ swr[t].wb = MaxWouldBlock
    /\ Len(wire[swr[t].sock]) = HeaderSize + MaxSendLen

\* a step of a send
SendStep == spc' # spc \/ swr' # swr \/ sres' # sres \/ wire' # wire

C10_NoCrossContamination ==
  \A s \in Socks :
    \A k \in 1..Len(msgs[s]) :
      /\ msgs[s][k].id = IdOf(s)
      /\ \A i \in 1..Len(msgs[s][k].payload) : msgs[s][k].payload[i].o = s
      /\ \A i \in 1..Len(msgs[s][k].hdr) : msgs[s][k].hdr[i].o = s

\* two connections are part-way through their frames at once, and one of them
\* has had a frame delivered before
C10_Witness ==
  \E s, r \in Socks :
    /\ s # r
    /\ Len(msgs[s]) >= 1
    /\ Len(msgs[s][1].payload) >= 1
    /\ rd[r] > 0
    /\ rd[r] < Len(stream[r])

\* the length word in the first 8 bytes of the buffer of e
Declared(e) == FromLeBytes(SubSeq(e.buffer, 1, HeaderSize))

\* the buffer of e is as long as 8 + its declared length
SizedForDeclared(e) ==
  /\ WordAdd(Declared(e), HeaderSize).carry = 0
  /\ WordIsSmall(WordAdd(Declared(e), HeaderSize).w)
  /\ Len(e.buffer) = WordToNat(WordAdd(Declared(e), HeaderSize).w)

\* C11: in the non-blocking loop every entry has read_bytes <= buffer.len();
\* the buffer is 8 long while fewer than 8 bytes are in, and from then on it is
\* 8 + the declared length long (8 still, in the part of a tick between the
\* read that brought in the eighth byte and the resize), for every declared
\* length of the word range.
C11_CountWithinBuffer ==
  nonblocking =>
    \A i \in 1..Len(clients) :
      /\ clients[i].read_bytes <= Len(clients[i].buffer)
      /\ clients[i].read_bytes < HeaderSize => Len(clients[i].buffer) = HeaderSize
      /\ clients[i].read_bytes >= HeaderSize =>
           Len(clients[i].buffer) = HeaderSize \/ SizedForDeclared(clients[i])

\* the frames of s whose last byte has been read
FramesRead(s) == Cardinality({i \in 1..Len(sent[s]) : EndOf(sent[s], i) <= rd[s]})

\* C12: in the non-blocking loop, on a connection whose peer sends only frames
\* declaring N >= 1, the message-received invocations are those of the frames
\* read so far, one each and in the order sent, the i-th with the payload of
\* the i-th frame; the entry's buffer holds the bytes read of the frame in
\* progress and nothing else, so no byte of a frame is taken into the buffer
\* of the frame before it.
C12_FramesInOrder ==
  nonblocking =>
    \A s \in Socks :
      GoodUpTo(s, Len(sent[s])) =>
        /\ Len(msgs[s]) = FramesRead(s)
        /\ \A k \in 1..Len(msgs[s]) :
             /\ msgs[s][k].id = IdOf(s)
             /\ msgs[s][k].payload = FramePayload(sent[s][k])
        /\ \A i \in EntriesOf(s) :
             LET from == EndOf(sent[s], Len(msgs[s]))
             IN  /\ clients[i].read_bytes = rd[s] - from
                 /\ SubSeq(clients[i].buffer, 1, clients[i].read_bytes)
                      = SubSeq(stream[s], from + 1, rd[s])

\* the first of two frames has been delivered and the second is partly read,
\* its header complete
C12_Witness ==
  /\ nonblocking
  /\ \E s \in Socks :
       /\ Len(sent[s]) = MaxFrames
       /\ GoodUpTo(s, MaxFrames)
       /\ Len(msgs[s]) = MaxFrames - 1
       /\ rd[s] > EndOf(sent[s], MaxFrames - 1) + HeaderSize
       /\ rd[s] < EndOf(sent[s], MaxFrames)
       /\ EntriesOf(s) # {}

\* f is a header declaring N >= 0 followed by N payload bytes
WholeFrame(f) ==
  /\ Len(f) >= HeaderSize
  /\ WordIsSmall(FromLeBytes(f))
  /\ WordToNat(FromLeBytes(f)) = Len(f) - HeaderSize

\* C13: in blocking mode, on a connection whose peer sends only complete
\* frames, what has been taken from the socket always ends at a frame boundary
\* (no byte taken is dropped), and the message-received invocations are those
\* of the frames taken, one each, the i-th with the payload of the i-th frame,
\* also when a read finds only part of a header or payload arrived.
C13_BlockingFrames ==
  ~nonblocking =>
    \A s \in Socks :
      (\A j \in 1..Len(sent[s]) : WholeFrame(sent[s][j])) =>
        /\ \E i \in 0..Len(sent[s]) : rd[s] = EndOf(sent[s], i)
        /\ Len(msgs[s]) = FramesRead(s)
        /\ \A k \in 1..Len(msgs[s]) :
             /\ msgs[s][k].id = IdOf(s)
             /\ msgs[s][k].payload = FramePayload(sent[s][k])

\* who is in the registry: identity and socket of each entry, in order
Members(cl) == [i \in 1..Len(cl) |-> [id |-> cl[i].id, socket |-> cl[i].socket]]

\* C14: the membership of the registry changes only by the accept step
\* appending one entry and by the drain step, the read pass over, removing
\* the entries of one request; no step of the read pass adds or removes an
\* entry, and a connection reported as disconnected in the pass is still in
\* the registry after that step.
C14_DeferredRemoval ==
  [][/\ Members(clients') # Members(clients) =>
          \/ /\ loopPc = "accept"
             /\ Len(clients') = Len(clients) + 1
             /\ SubSeq(clients', 1, Len(clients)) = clients
          \/ /\ loopPc = "drain"
             /\ lock = "free"
             /\ queue # <<>>
             /\ clients' = SelectSeq(clients, LAMBDA c : c.id # Head(queue))
     /\ loopPc = "pass" => Members(clients') = Members(clients)
     /\ \A s \in Socks :
          disc'[s] > disc[s] =>
            /\ loopPc = "pass"
            /\ clients[pos].socket = s
            /\ clients'[pos].socket = s]_vars

\* a connection has been reported as disconnected, the pass goes on with the
\* next entry and both entries are in the registry
C14_Witness ==
  /\ loopPc = "pass"
  /\ Len(clients) = MaxConns
  /\ pos = MaxConns
  /\ disc[clients[1].socket] = 1
  /\ queue = <<clients[1].id>>

\* this step is a read of the non-blocking pass that reports would-block or
\* another error: the entry at pos is passed, nothing is taken from its socket
\* and the socket is reset, or has room in the slice and is not at its end
ReadFails ==
  /\ nonblocking
  /\ loopPc = "pass"
  /\ pos <= Len(clients)
  /\ pos' = pos + 1
  /\ rd' = rd
  /\ ~Prepare(clients[pos]).boom
  /\ LET s == clients[pos].socket
     IN  \/ pstate[s] = "reset"
         \/ /\ Space(clients[pos]) > 0
            /\ pstate[s] = "open" \/ (pstate[s] = "closed" /\ Avail(s) > 0)

\* what such a step leaves alone besides the registry
ReadFailsQuietly ==
  /\ queue' = queue
  /\ msgs' = msgs
  /\ disc' = disc
  /\ Members(clients') = Members(clients)

C16_DisconnectedOnce ==
  nonblocking => \A s \in Socks : disc[s] <= 1

\* C17: in the non-blocking loop a connection whose peer is open and has sent
\* only well-formed frames (a header declaring N >= 0, then N payload bytes)
\* is not reported as disconnected, has no removal request in the channel and
\* is in the registry.
C17_OpenPeerNotDisconnected ==
  nonblocking =>
    \A s \in Socks :
      (/\ ident[s] # <<>>
       /\ pstate[s] = "open"
       /\ \A j \in 1..Len(sent[s]) : WholeFrame(sent[s][j])) =>
         /\ disc[s] = 0
         /\ IdOf(s) \notin Range(queue)
         /\ EntriesOf(s) # {}

\* the sockets that have an entry in cl
SocketsOf(cl) == {cl[i].socket : i \in 1..Len(cl)}

\* C18 (its last clause): in both loop modes a removal request taken from the
\* channel removes no entry but that of a connection the request was enqueued
\* for: an entry leaves the registry only if its connection has been reported
\* as closed, a request for it enqueued.
C18_DrainRemovesOnlyClosed ==
  [][\A s \in SocketsOf(clients) \ SocketsOf(clients') : disc[s] >= 1]_vars

\* bytes i and k of w were written by the same call of send
SameCall(w, i, k) == w[i].call = w[k].call /\ w[i].n = w[k].n

\* the octets of call n of sender t on the wire of socket s
WrittenIn(s, t, n) ==
  LET w == SelectSeq(wire[s], LAMBDA b : b.call = t /\ b.n = n)
  IN  [i \in 1..Len(w) |-> w[i].v]

\* C19: the bytes two threads' sends write to one socket never interleave:
\* on every socket the bytes of each call are contiguous, no byte of another
\* call between two of them, also when the writes are partial and report
\* would-block; and a call that has returned Ok has written its whole frame.
C19_SendsDoNotInterleave ==
  /\ \A s \in Socks :
       \A i, k \in 1..Len(wire[s]) :
         (i < k /\ SameCall(wire[s], i, k)) =>
           \A j \in i..k : SameCall(wire[s], i, j)
  /\ \A t \in Senders :
       (spc[t] = "done" /\ sres[t].msg = "Ok") =>
         WrittenIn(swr[t].sock, t, calls[t]) = WireFrame(sreq[t].data)

\* both threads have sent the longest payload to the same socket, each after
\* a would-block
C19_Witness ==
  \E s \in Socks :
    /\ \A t \in Senders :
         /\ spc[t] = "done"
         /\ sres[t].msg = "Ok"
         /\ swr[t].sock = s
         /\ swr[t].wb = MaxWouldBlock
         /\ Len(sreq[t].data) = MaxSendLen
    /\ Len(wire[s]) = 2 * (HeaderSize + MaxSendLen)

\* C20: the loop thread never waits for the registry lock while it holds it: a
\* connected, disconnected or message-received handler that calls send gets
\* the call back, so the loop is neither blocked for good inside a handler nor
\* ended by a panic there.
C20_HandlerSendReturns == nonblocking => loopPc \notin {"stuck", "panicked"}
====
